---- MODULE Spec2Model ----
(***************************************************************************)
(* The windowed navigation state of gitt: AppModel (src/src/model.rs), the *)
(* key routing of EventHandler::update_model (src/src/controller.rs) and   *)
(* the draw / update loop of main (src/src/main.rs).                       *)
(*                                                                         *)
(* Every AppModel method is an operator from a model record to a result    *)
(* [model, panic]: the record the method leaves behind and the panic it    *)
(* raised, if any.  A panic ends the process: no action is enabled after.  *)
(***************************************************************************)
EXTENDS Integers, Sequences, FiniteSets, TLC

\* ------------------------------------------------------------------ bounds
\* The largest number of commits the walked history holds.
MaxCommits == 3
\* The largest number of lines diff() yields for one commit.
MaxDiffLines == 4
\* The largest pane height (rows) the terminal layout hands to the model.
MaxHeight == 4
MaxSent == 2
MaxPaths == 2
MaxPatchLines == 2

\* ------------------------------------------------------- program constants
\* diff() always yields the id line and at least one message line
\* (model.rs 182-203: split('\n') yields at least one item).
MinDiffLines == 2
\* usize::MAX.  The program's usize is 64 bits wide; TLC's integers are 32
\* bits wide, so the model wraps at the largest integer TLC holds.  Like
\* 2^64 - 1 it lies above every index and length the bounds allow, which is
\* all the code's comparisons ask of it.
USIZE_MAX == 2147483647

VARIABLES
    repository,       \* the walked history: one diff line count per commit
    overflow_checks,  \* the build: TRUE panics on usize overflow, FALSE wraps
    model,            \* the AppModel
    event,            \* the event update_model received last
    pc,               \* main's position: "draw", "update" or "done"
    panic,            \* the panic that ended the process, or NoPanic
    channel,          \* the mpsc channel: the events sent and not yet received
    sent,             \* how many events the producer thread has sent
    received,         \* the number of the event update_model received last
    history,          \* the commits revwalk reaches, newest first: what the
                      \* walk and find_commit give for each
    revspec,          \* the COMMITTISH argument
    paths,            \* the path arguments: the commits whose diff touches each
    filters,          \* the CommitFilters main has built
    error,            \* the Err main returns, or NoError
    selected,         \* what git2 gives for the commit that diff() renders
    text              \* the lines diff() returned

engine_vars == <<repository, overflow_checks, model, event, pc, panic>>
channel_vars == <<channel, sent, received>>
startup_vars == <<history, revspec, paths, filters, error>>
detail_vars == <<selected, text>>
vars == <<engine_vars, channel_vars, startup_vars, detail_vars>>

\* ------------------------------------------------------------------ values
Commits == "Commits"
Details == "Details"
Finished == "Finished"
AppState == {Commits, Details, Finished}

NoPanic == "none"
AssertionFailed == "assertion failed"
ArithmeticOverflow == "attempt to subtract with overflow"
MissingCommit == "Unexpected missing commit"
DebugAssertionFailed == "debug assertion failed"
NoOid == "Revwalk unable to get oid"
Blah == "blah"
Unimplemented == "not implemented"
InvalidRevision == "Invalid revision specifier"
UnwrapOnErr == "called Result::unwrap() on an Err value"

\* The Err values of git2 that main can return
NoError == "none"
RevparseError == "revspec not found"
NoCommitsFound == "No commits found"

\* One key per match arm of update_model: "Down" stands for Down | 'j',
\* "Up" for Up | 'k', "PageDown" for PageDown | ctrl-f, "PageUp" for
\* PageUp | ctrl-b, and "Other" for every key the wildcard arm takes.
Keys == {"q", "Tab", "g", "G", "Down", "Up", "PageDown", "PageUp", "Other"}

Input(k) == [kind |-> "Input", key |-> k]
Resize == [kind |-> "Resize", key |-> "-"]
Failure == [kind |-> "Failure", key |-> "-"]
Tick == [kind |-> "Tick", key |-> "-"]
NoEvent == [kind |-> "None", key |-> "-"]

Min(a, b) == IF a <= b THEN a ELSE b

\* usize::saturating_sub
saturating_sub(a, b) == IF a >= b THEN a - b ELSE 0

\* usize `-` in a build without overflow checks
wrapping_sub(a, b) == IF a >= b THEN a - b ELSE (USIZE_MAX - (b - a)) + 1

Ok(m) == [model |-> m, panic |-> NoPanic]
Panicked(m, msg) == [model |-> m, panic |-> msg]

\* --------------------------------------------------------------- AppModel
\* walker().count()
walker_count == Len(repository)

\* walker().skip(revision_index).nth(selected) is Some
commit_found(m) ==
    /\ m.revision_index < walker_count
    /\ m.revision_window_index < walker_count - m.revision_index

\* diff().len() of the selected commit
diff_len(m) == repository[m.revision_index + m.revision_window_index + 1]

\* diff_reset that keeps the length of the diff shown before
diff_reset_keeps_length(m) ==
    LET m1 == [m EXCEPT !.diff_index = 0, !.diff_window_length = 1]
    IN  IF commit_found(m1) THEN Ok(m1) ELSE Panicked(m1, MissingCommit)

diff_reset(m) ==
    LET m1 == [m EXCEPT !.diff_index = 0, !.diff_window_length = 1]
    IN  IF commit_found(m1)
        THEN Ok([m1 EXCEPT !.diff_length = diff_len(m1)])
        ELSE Panicked(m1, MissingCommit)

\* AppModel::new with AppState::Commits, on a history of at least one commit
new(repo) ==
    [app_state |-> Commits,
     revision_index |-> 0,
     revision_window_index |-> 0,
     revision_window_length |-> Len(repo),
     revision_max |-> Len(repo),
     diff_index |-> 0,
     diff_window_length |-> 1,
     diff_length |-> repo[1]]

\* resize_revision_window without the shrink to the commits there are
resize_revision_window_unclamped(m, length) ==
    IF ~(m.revision_window_index <= length)
    THEN Panicked(m, AssertionFailed)
    ELSE Ok([m EXCEPT !.revision_window_length = length])

resize_revision_window(m, length) ==
    IF ~(m.revision_window_index <= length)
    THEN Panicked(m, AssertionFailed)
    ELSE LET commit_count ==
                 Min(length, saturating_sub(walker_count, m.revision_index))
         IN  Ok([m EXCEPT !.revision_window_length = Min(length, commit_count)])

\* go_to_first_revision without select(Some(0))
go_to_first_revision_keeps_selection(m) ==
    diff_reset([m EXCEPT !.revision_index = 0])

go_to_first_revision(m) ==
    diff_reset([m EXCEPT !.revision_index = 0, !.revision_window_index = 0])

go_to_last_revision(m) ==
    LET m1 == [m EXCEPT !.revision_index =
                   wrapping_sub(m.revision_max, m.revision_window_length)]
        m2 == [m1 EXCEPT !.revision_window_index =
                   wrapping_sub(m.revision_window_length, 1)]
    IN  IF overflow_checks /\ m.revision_window_length > m.revision_max
        THEN Panicked(m, ArithmeticOverflow)
        ELSE IF overflow_checks /\ m.revision_window_length < 1
        THEN Panicked(m1, ArithmeticOverflow)
        ELSE diff_reset(m2)

increment_revision(m) ==
    LET last == wrapping_sub(m.revision_window_length, 1)
    IN  IF overflow_checks /\ m.revision_window_length < 1
        THEN Panicked(m, ArithmeticOverflow)
        ELSE IF m.revision_window_index < last
        THEN diff_reset([m EXCEPT !.revision_window_index = @ + 1])
        ELSE IF m.revision_window_index = last
        THEN IF overflow_checks /\ m.revision_window_length > m.revision_max
             THEN Panicked(m, ArithmeticOverflow)
             ELSE IF m.revision_index <
                       wrapping_sub(m.revision_max, m.revision_window_length)
             THEN diff_reset([m EXCEPT !.revision_index = @ + 1])
             ELSE diff_reset(m)
        ELSE diff_reset(m)

decrement_revision(m) ==
    IF m.revision_window_index > 0
    THEN diff_reset([m EXCEPT !.revision_window_index = @ - 1])
    ELSE diff_reset([m EXCEPT !.revision_index = saturating_sub(@, 1)])

\* resize_diff_window that moves diff_index whether the window fits or not
resize_diff_window_always_clamps(m, window_length) ==
    [m EXCEPT !.diff_index = saturating_sub(m.diff_length, window_length),
              !.diff_window_length = window_length]

\* resize_diff_window without the clamp of diff_index
resize_diff_window_unclamped(m, window_length) ==
    [m EXCEPT !.diff_window_length = window_length]

resize_diff_window(m, window_length) ==
    LET m1 == IF m.diff_index + window_length > m.diff_length
              THEN [m EXCEPT !.diff_index =
                        saturating_sub(m.diff_length, window_length)]
              ELSE m
    IN  [m1 EXCEPT !.diff_window_length = window_length]

go_to_first_diff_line(m) == [m EXCEPT !.diff_index = 0]

go_to_last_diff_line(m) ==
    [m EXCEPT !.diff_index = saturating_sub(m.diff_length, m.diff_window_length)]

\* increment_diff_line without its test
increment_diff_line_unbounded(m) == [m EXCEPT !.diff_index = @ + 1]

increment_diff_line(m) ==
    IF m.diff_index < saturating_sub(m.diff_length, m.diff_window_length)
    THEN [m EXCEPT !.diff_index = @ + 1]
    ELSE m

decrement_diff_line(m) == [m EXCEPT !.diff_index = saturating_sub(@, 1)]

\* ------------------------------------------------------------ controller
\* for _ in 0..k { model.increment_diff_line() }
RECURSIVE increment_diff_lines(_, _)
increment_diff_lines(m, k) ==
    IF k = 0 THEN m ELSE increment_diff_lines(increment_diff_line(m), k - 1)

\* for _ in 0..k { model.decrement_diff_line() }
RECURSIVE decrement_diff_lines(_, _)
decrement_diff_lines(m, k) ==
    IF k = 0 THEN m ELSE decrement_diff_lines(decrement_diff_line(m), k - 1)

\* The Commits arm with a key that enters a fourth mode
commits_input_log_toggle(m, key) ==
    CASE key = "q" -> Ok([m EXCEPT !.app_state = Finished])
      [] key = "Tab" -> Ok([m EXCEPT !.app_state = Details])
      [] key = "g" -> go_to_first_revision(m)
      [] key = "G" -> go_to_last_revision(m)
      [] key = "Down" -> increment_revision(m)
      [] key = "Up" -> decrement_revision(m)
      [] OTHER -> Ok([m EXCEPT !.app_state = "Log"])

\* The Commits arm with no case for Tab
commits_input_tab_ignored(m, key) ==
    CASE key = "q" -> Ok([m EXCEPT !.app_state = Finished])
      [] key = "g" -> go_to_first_revision(m)
      [] key = "G" -> go_to_last_revision(m)
      [] key = "Down" -> increment_revision(m)
      [] key = "Up" -> decrement_revision(m)
      [] OTHER -> Ok(m)

\* The Event::Input arm while app_state = Commits
commits_input(m, key) ==
    CASE key = "q" -> Ok([m EXCEPT !.app_state = Finished])
      [] key = "Tab" -> Ok([m EXCEPT !.app_state = Details])
      [] key = "g" -> go_to_first_revision(m)
      [] key = "G" -> go_to_last_revision(m)
      [] key = "Down" -> increment_revision(m)
      [] key = "Up" -> decrement_revision(m)
      [] OTHER -> Ok(m)

\* The Details arm with the page keys scrolling by one line
details_input_pages_one_line(m, key) ==
    CASE key = "q" -> Ok([m EXCEPT !.app_state = Finished])
      [] key = "Tab" -> Ok([m EXCEPT !.app_state = Commits])
      [] key = "g" -> Ok(go_to_first_diff_line(m))
      [] key = "G" -> Ok(go_to_last_diff_line(m))
      [] key = "Down" -> Ok(increment_diff_line(m))
      [] key = "Up" -> Ok(decrement_diff_line(m))
      [] key = "PageDown" -> Ok(increment_diff_line(m))
      [] key = "PageUp" -> Ok(decrement_diff_line(m))
      [] OTHER -> Ok(m)

\* The Details arm with Tab going back to the top of the diff
details_input_tab_rewinds(m, key) ==
    CASE key = "q" -> Ok([m EXCEPT !.app_state = Finished])
      [] key = "Tab" -> Ok([go_to_first_diff_line(m) EXCEPT !.app_state = Commits])
      [] key = "g" -> Ok(go_to_first_diff_line(m))
      [] key = "G" -> Ok(go_to_last_diff_line(m))
      [] key = "Down" -> Ok(increment_diff_line(m))
      [] key = "Up" -> Ok(decrement_diff_line(m))
      [] key = "PageDown" -> Ok(increment_diff_lines(m, m.diff_window_length))
      [] key = "PageUp" -> Ok(decrement_diff_lines(m, m.diff_window_length))
      [] OTHER -> Ok(m)

\* The Details arm with Down | 'j' routed to the commit list
details_input_moves_revision(m, key) ==
    CASE key = "q" -> Ok([m EXCEPT !.app_state = Finished])
      [] key = "Tab" -> Ok([m EXCEPT !.app_state = Commits])
      [] key = "g" -> Ok(go_to_first_diff_line(m))
      [] key = "G" -> Ok(go_to_last_diff_line(m))
      [] key = "Down" -> increment_revision(m)
      [] key = "Up" -> Ok(decrement_diff_line(m))
      [] key = "PageDown" -> Ok(increment_diff_lines(m, m.diff_window_length))
      [] key = "PageUp" -> Ok(decrement_diff_lines(m, m.diff_window_length))
      [] OTHER -> Ok(m)

\* The Event::Input arm while app_state = Details
details_input(m, key) ==
    CASE key = "q" -> Ok([m EXCEPT !.app_state = Finished])
      [] key = "Tab" -> Ok([m EXCEPT !.app_state = Commits])
      [] key = "g" -> Ok(go_to_first_diff_line(m))
      [] key = "G" -> Ok(go_to_last_diff_line(m))
      [] key = "Down" -> Ok(increment_diff_line(m))
      [] key = "Up" -> Ok(decrement_diff_line(m))
      [] key = "PageDown" -> Ok(increment_diff_lines(m, m.diff_window_length))
      [] key = "PageUp" -> Ok(decrement_diff_lines(m, m.diff_window_length))
      [] OTHER -> Ok(m)

\* update_model with an empty Event::Failure arm
update_model_ignores_failure(m, e) ==
    CASE e.kind = "Input" ->
             IF m.app_state = Commits THEN commits_input(m, e.key)
             ELSE IF m.app_state = Details THEN details_input(m, e.key)
             ELSE Ok(m)
      [] e.kind = "Resize" -> Ok(m)
      [] e.kind = "Failure" -> Ok(m)

\* update_model whose key arms for the commit list also serve Finished
update_model_finished_as_commits(m, e) ==
    CASE e.kind = "Input" ->
             IF m.app_state = Details THEN details_input(m, e.key)
             ELSE commits_input(m, e.key)
      [] e.kind = "Resize" -> Ok(m)
      [] e.kind = "Failure" -> Ok([m EXCEPT !.app_state = Finished])

\* One pass of update_model's loop body over an event that is not a Tick
update_model(m, e) ==
    CASE e.kind = "Input" ->
             IF m.app_state = Commits THEN commits_input(m, e.key)
             ELSE IF m.app_state = Details THEN details_input(m, e.key)
             ELSE Ok(m)
      [] e.kind = "Resize" -> Ok(m)
      [] e.kind = "Failure" -> Ok([m EXCEPT !.app_state = Finished])

\* --------------------------------------------------------------- widgets
\* debug_assert! is compiled in by the profiles that compile overflow checks
\* in: cargo's dev profile sets both, its release profile neither.
debug_assertions == overflow_checks

\* (index, window length, total length) of the diff
diff_line_scroll(m) == <<m.diff_index, m.diff_window_length, m.diff_length>>

\* The bar's length without the min against total_length
scaled_window_length_unclamped(area_height, window_length, total_length) ==
    (2 * area_height * window_length + total_length) \div (2 * total_length)

\* (scaling * min(window_length, total_length)).round() with scaling =
\* area.height / total_length: round is to nearest, halves away from zero
scaled_window_length(area_height, window_length, total_length) ==
    (2 * area_height * Min(window_length, total_length) + total_length)
        \div (2 * total_length)

\* (scaling * window_index) as u16: the cast truncates
window_offset(area_height, window_index, total_length) ==
    (area_height * window_index) \div total_length

\* VerticalBar::render over an area of area_height rows
render(m, area_height) ==
    LET scroll == diff_line_scroll(m)
        offset == window_offset(area_height, scroll[1], scroll[3])
        length == scaled_window_length(area_height, scroll[2], scroll[3])
    IN  IF debug_assertions /\ ~(offset < area_height)
        THEN Panicked(m, DebugAssertionFailed)
        ELSE IF debug_assertions /\ ~(offset + length <= area_height)
        THEN Panicked(m, DebugAssertionFailed)
        ELSE Ok(m)

\* ------------------------------------------------------------------ main
\* The closure of terminal.draw: both panes are resized to the heights the
\* layout gives them, then the detail pane renders diff() of the selection
\* and the scroll bar is rendered in the column beside it, of the same height.
draw(m, commit_height, details_height) ==
    LET r == resize_revision_window(m, commit_height)
        m2 == resize_diff_window(r.model, details_height)
    IN  IF r.panic # NoPanic THEN r
        ELSE IF ~commit_found(m2) THEN Panicked(m2, MissingCommit)
        ELSE render(m2, details_height)

Heights == 0..MaxHeight
DiffLengths == {MinDiffLines, MaxDiffLines}
\* Histories of 1..MaxCommits commits in which neighbouring commits differ in
\* the length of their diff, so that a change of the selected commit shows.
Repositories ==
    UNION {{r \in [1..n -> DiffLengths] : \A i \in 1..(n - 1) : r[i] # r[i + 1]}
           : n \in 1..MaxCommits}

\* The channel as event_receiver creates it
ChannelIdle ==
    /\ channel = <<>>
    /\ sent = 0
    /\ received = 0

\* A root commit with a one-line message and an empty patch
NoCommit ==
    [message |-> [utf8 |-> TRUE, newlines |-> 0], parents |-> 0,
     patch |-> <<>>, excluded |-> {}]

\* No diff() under study: the windows keep the length of the diff only
NoDetail ==
    /\ selected = NoCommit
    /\ text = <<>>

\* main's arguments once the model is built: the loop does not read them
StartupDone ==
    /\ history = <<>>
    /\ revspec = "none"
    /\ paths = <<>>
    /\ filters = <<>>
    /\ error = NoError

Init ==
    /\ repository \in Repositories
    /\ overflow_checks \in BOOLEAN
    /\ model = new(repository)
    /\ event = NoEvent
    /\ pc = "draw"
    /\ panic = NoPanic
    /\ ChannelIdle
    /\ StartupDone
    /\ NoDetail

\* terminal.draw(..) at a terminal size that gives the two panes these heights
Draw(commit_height, details_height) ==
    /\ pc = "draw"
    /\ panic = NoPanic
    /\ LET r == draw(model, commit_height, details_height)
       IN  /\ model' = r.model
           /\ panic' = r.panic
           /\ pc' = IF r.panic = NoPanic THEN "update" ELSE "draw"
    /\ UNCHANGED <<repository, overflow_checks, event>>
    /\ UNCHANGED <<channel_vars, startup_vars, detail_vars>>

\* update_model receives a Tick: `continue`, the loop receives again
RecvTick ==
    /\ pc = "update"
    /\ panic = NoPanic
    /\ event' = Tick
    /\ UNCHANGED <<repository, overflow_checks, model, pc, panic>>
    /\ UNCHANGED <<channel_vars, startup_vars, detail_vars>>

\* update_model receives e, applies it and returns; main leaves its loop when
\* the model is Finished
Recv(e) ==
    /\ pc = "update"
    /\ panic = NoPanic
    /\ event' = e
    /\ LET r == update_model(model, e)
       IN  /\ model' = r.model
           /\ panic' = r.panic
           /\ pc' = IF r.panic # NoPanic THEN "update"
                    ELSE IF r.model.app_state = Finished THEN "done"
                    ELSE "draw"
    /\ UNCHANGED <<repository, overflow_checks>>
    /\ UNCHANGED <<channel_vars, startup_vars, detail_vars>>

RecvInput == \E k \in Keys : Recv(Input(k))
RecvResize == Recv(Resize)
RecvFailure == Recv(Failure)
DrawFrame == \E h \in Heights, d \in Heights : Draw(h, d)

Next ==
    \/ DrawFrame
    \/ RecvTick
    \/ RecvInput
    \/ RecvResize
    \/ RecvFailure

Spec == Init /\ [][Next]_vars

\* ------------------------------------------------- the producer thread
\* The thread of event_receiver and update_model at the two ends of the
\* channel. The thread numbers nothing: `number` records the order of the
\* sends so that the order of the receives can be compared with it.

\* tx.send(e), as the n-th send
send(ch, e, n) == Append(ch, [event |-> e, number |-> n])

\* A receive that takes the event sent last
recv_newest(ch) ==
    [entry |-> ch[Len(ch)], rest |-> SubSeq(ch, 1, Len(ch) - 1)]

\* self.receiver.recv() on a channel that holds an event: the one sent first
recv(ch) == [entry |-> Head(ch), rest |-> Tail(ch)]

Send_shares_model(e) ==
    /\ pc # "done"
    /\ panic = NoPanic
    /\ sent < MaxSent
    /\ channel' = send(channel, e, sent + 1)
    /\ sent' = sent + 1
    /\ model' = IF e = Failure THEN [model EXCEPT !.app_state = Finished] ELSE model
    /\ UNCHANGED <<repository, overflow_checks, event, pc, panic>>
    /\ UNCHANGED <<received, startup_vars, detail_vars>>

\* One tx.send of the thread's loop. The thread runs until the process ends.
Send(e) ==
    /\ pc # "done"
    /\ panic = NoPanic
    /\ sent < MaxSent
    /\ channel' = send(channel, e, sent + 1)
    /\ sent' = sent + 1
    /\ UNCHANGED <<engine_vars, received, startup_vars, detail_vars>>

\* The keys pressed while the thread listens: quit, toggle, a key with an arm
\* in both modes, a key with an arm in one mode and a key with none. (Spec
\* applies every key of Keys.)
PressedKeys == {"q", "Tab", "Down", "PageDown", "Other"}

\* Event::listen returned a key press or a resize
SendListened ==
    \E e \in {Input(k) : k \in PressedKeys} \cup {Resize} : Send(e)
\* Event::listen returned Err
SendFailure == Send(Failure)
\* tick_rate has elapsed since the last Tick
SendTick == Send(Tick)

Receive_tick_returns ==
    /\ pc = "update" /\ panic = NoPanic /\ channel # <<>>
    /\ LET got == recv(channel)
           e == got.entry.event
           r == IF e = Tick THEN Ok(model) ELSE update_model(model, e)
       IN  /\ channel' = got.rest
           /\ received' = got.entry.number
           /\ event' = e
           /\ model' = r.model
           /\ panic' = r.panic
           /\ pc' = IF r.panic # NoPanic THEN "update"
                    ELSE IF r.model.app_state = Finished THEN "done"
                    ELSE "draw"
    /\ UNCHANGED <<repository, overflow_checks, sent, startup_vars>>
    /\ UNCHANGED detail_vars

\* update_model: receive the oldest event; a Tick is dropped and the loop
\* receives again, any other event is applied and update_model returns
Receive ==
    /\ pc = "update"
    /\ panic = NoPanic
    /\ channel # <<>>
    /\ LET got == recv(channel)
           e == got.entry.event
       IN  /\ channel' = got.rest
           /\ received' = got.entry.number
           /\ event' = e
           /\ IF e = Tick
              THEN UNCHANGED <<model, pc, panic>>
              ELSE LET r == update_model(model, e)
                   IN  /\ model' = r.model
                       /\ panic' = r.panic
                       /\ pc' = IF r.panic # NoPanic THEN "update"
                                ELSE IF r.model.app_state = Finished
                                THEN "done"
                                ELSE "draw"
    /\ UNCHANGED <<repository, overflow_checks, sent, startup_vars>>
    /\ UNCHANGED detail_vars

ChannelNext ==
    \/ DrawFrame
    \/ SendListened
    \/ SendFailure
    \/ SendTick
    \/ Receive

ChannelSpec == Init /\ [][ChannelNext]_vars

\* main's loop is sequential code on the main thread: once a frame is due it
\* is drawn, and the blocking recv of update_model returns once the channel
\* holds an event. Nothing is assumed about the producer thread.
FairChannelSpec == ChannelSpec /\ WF_vars(DrawFrame) /\ WF_vars(Receive)

\* -------------------------------------------------------------- start-up
\* main from its arguments to the first frame. A commit of the history is
\* named by its place in the walk, 1 for the newest.

\* What the history source gives for a commit: the walk yields its oid and
\* find_commit finds it; the walk yields its oid and find_commit fails; the
\* walk yields Err.
Found == "found"
Unreadable == "unreadable"
WalkError == "walk error"
CommitKinds == {Found, Unreadable, WalkError}

PathFilter(oids) == [kind |-> "Path", oids |-> oids]
TextFilter == [kind |-> "Text", oids |-> {}]

\* CommitFilter::apply: "true", "false" or the panic of unimplemented!()
apply(filter, oid) ==
    IF filter.kind = "Path"
    THEN IF oid \in filter.oids THEN "true" ELSE "false"
    ELSE Unimplemented

\* filters.iter().any(|filter| filter.apply(&commit)) from the i-th filter on:
\* any stops at the first filter that applies
RECURSIVE any(_, _, _)
any(fs, oid, i) ==
    IF i > Len(fs) THEN "false"
    ELSE IF apply(fs[i], oid) = "false" THEN any(fs, oid, i + 1)
    ELSE apply(fs[i], oid)

\* The commits CommitView yields from the i-th of the history on, until its
\* next() returns None or panics, after `stream`
RECURSIVE walk(_, _, _, _)
walk(h, fs, i, stream) ==
    IF i > Len(h) THEN [stream |-> stream, panic |-> NoPanic]
    ELSE IF fs = <<>>
    THEN IF h[i] = WalkError THEN [stream |-> stream, panic |-> NoOid]
         ELSE IF h[i] = Unreadable THEN [stream |-> stream, panic |-> NoPanic]
         ELSE walk(h, fs, i + 1, Append(stream, i))
    ELSE IF h[i] = WalkError THEN [stream |-> stream, panic |-> Blah]
         ELSE IF h[i] = Unreadable THEN walk(h, fs, i + 1, stream)
         ELSE IF any(fs, i, 1) = Unimplemented
         THEN [stream |-> stream, panic |-> Unimplemented]
         ELSE IF any(fs, i, 1) = "true"
         THEN walk(h, fs, i + 1, Append(stream, i))
         ELSE walk(h, fs, i + 1, stream)

\* CommitView::new(..) consumed to its end, as count() does
walker(h, fs) == walk(h, fs, 1, <<>>)

\* diff().len() of the commit at place oid: neighbours in the history differ
commit_lines(oid) == IF oid % 2 = 1 THEN MinDiffLines ELSE MaxDiffLines

\* The struct AppModel::new builds before it calls set_revision
unset ==
    [app_state |-> Commits,
     revision_index |-> 0,
     revision_window_index |-> 0,
     revision_window_length |-> 0,
     revision_max |-> 0,
     diff_index |-> 0,
     diff_window_length |-> 1,
     diff_length |-> 1]

\* set_revision without its revparse check: CommitView::new is first to parse
set_revision_unvalidated(h, rev, fs) ==
    LET w == walker(h, fs)
        repo == [j \in 1..Len(w.stream) |-> commit_lines(w.stream[j])]
        none == [kind |-> "Err", error |-> NoError, panic |-> NoPanic,
                 repository |-> <<>>, model |-> unset]
    IN  IF rev = "invalid"
        THEN [none EXCEPT !.kind = "Panic", !.panic = InvalidRevision]
        ELSE IF w.panic # NoPanic
        THEN [none EXCEPT !.kind = "Panic", !.panic = w.panic]
        ELSE IF Len(w.stream) = 0
        THEN [none EXCEPT !.error = NoCommitsFound]
        ELSE [none EXCEPT !.kind = "Ok", !.repository = repo,
                          !.model = new(repo)]

\* AppModel::new(Commits, repository, rev, fs): new calls set_revision and
\* returns its Err, or the model over the commits the walk yields
set_revision(h, rev, fs) ==
    LET w == walker(h, fs)
        repo == [j \in 1..Len(w.stream) |-> commit_lines(w.stream[j])]
        none == [kind |-> "Err", error |-> NoError, panic |-> NoPanic,
                 repository |-> <<>>, model |-> unset]
    IN  IF rev = "invalid"
        THEN [none EXCEPT !.error = RevparseError]
        ELSE IF w.panic # NoPanic
        THEN [none EXCEPT !.kind = "Panic", !.panic = w.panic]
        ELSE IF Len(w.stream) = 0
        THEN [none EXCEPT !.error = NoCommitsFound]
        ELSE [none EXCEPT !.kind = "Ok", !.repository = repo,
                          !.model = new(repo)]

\* The set of the elements of a sequence
Range(seq) == {seq[i] : i \in 1..Len(seq)}

Oids == 1..MaxCommits
Histories == UNION {[1..n -> CommitKinds] : n \in 1..MaxCommits}
Revspecs == {"none", "valid", "invalid"}
\* What a path argument can touch: no commit, one commit, every commit
Touched == {{}} \cup {{oid} : oid \in Oids} \cup {Oids}
PathArguments == UNION {[1..n -> Touched] : n \in 0..MaxPaths}

StartInit ==
    /\ history \in Histories
    /\ revspec \in Revspecs
    /\ paths \in PathArguments
    /\ overflow_checks \in BOOLEAN
    /\ filters = <<>>
    /\ error = NoError
    /\ repository = <<>>
    /\ model = unset
    /\ event = NoEvent
    /\ pc = "filters"
    /\ panic = NoPanic
    /\ ChannelIdle
    /\ NoDetail

\* main builds one CommitFilter::Path per path argument: for each it unwraps
\* a model without filters and collects the commits of its walker whose diff
\* touches the path
BuildFilters ==
    /\ pc = "filters"
    /\ panic = NoPanic
    /\ LET r == set_revision(history, revspec, <<>>)
           w == walker(history, <<>>)
       IN  IF paths = <<>> THEN filters' = <<>> /\ pc' = "new" /\ panic' = panic
           ELSE IF r.kind = "Err"
           THEN panic' = UnwrapOnErr /\ UNCHANGED <<filters, pc>>
           ELSE IF r.kind = "Panic"
           THEN panic' = r.panic /\ UNCHANGED <<filters, pc>>
           ELSE /\ filters' = [i \in 1..Len(paths) |->
                                  PathFilter(paths[i] \cap Range(w.stream))]
                /\ pc' = "new"
                /\ panic' = panic
    /\ UNCHANGED <<repository, overflow_checks, model, event>>
    /\ UNCHANGED <<channel_vars, history, revspec, paths, error>>
    /\ UNCHANGED detail_vars

\* AppModel::new(..)? with the filters built: main returns its Err
Construct ==
    /\ pc = "new"
    /\ panic = NoPanic
    /\ LET r == set_revision(history, revspec, filters)
       IN  /\ model' = r.model
           /\ repository' = r.repository
           /\ error' = r.error
           /\ panic' = r.panic
           /\ pc' = IF r.kind = "Ok" THEN "constructed"
                    ELSE IF r.kind = "Err" THEN "failed"
                    ELSE "new"
    /\ UNCHANGED <<overflow_checks, event>>
    /\ UNCHANGED <<channel_vars, history, revspec, paths, filters>>
    /\ UNCHANGED detail_vars

\* EventHandler::new, EnterAlternateScreen, enable_raw_mode, Terminal::new:
\* the interactive session starts and main enters its loop
EnterSession ==
    /\ pc = "constructed"
    /\ panic = NoPanic
    /\ pc' = "draw"
    /\ UNCHANGED <<repository, overflow_checks, model, event, panic>>
    /\ UNCHANGED <<channel_vars, startup_vars, detail_vars>>

StartNext ==
    \/ BuildFilters
    \/ Construct
    \/ EnterSession

StartSpec == StartInit /\ [][StartNext]_vars

\* ---------------------------------------------------------------- diff()
\* AppModel::diff over what git2 gives for the selected commit: whether its
\* message is UTF-8 and how many '\n' it holds, the number of its parents,
\* the lines diff.print passes to the callback for the files the path filters
\* keep, and the paths of the files they exclude. A line of the text is
\* modelled by what it shows.
Utf8Error == "called Result::unwrap() on an Err value: Utf8Error"

\* n copies of the line x
Lines(n, x) == [i \in 1..n |-> x]

\* commit.message().unwrap_or("INVALID MESSAGE").split('\n')
message_lines(message) ==
    IF message.utf8 THEN Lines(message.newlines + 1, "message")
    ELSE <<"INVALID MESSAGE">>

\* What the callback of diff.print appends for one line: an 'F' line is
\* split at its '\n', every other line is one line of the text; both unwrap
\* from_utf8
patch_line(line) ==
    IF ~line.utf8 THEN [text |-> <<>>, panic |-> Utf8Error]
    ELSE IF line.origin = "F"
    THEN [text |-> Lines(line.newlines + 1, "file"), panic |-> NoPanic]
    ELSE [text |-> <<"line">>, panic |-> NoPanic]

\* diff.diff_print(..) from the i-th line of the patch on, after `lines`
RECURSIVE diff_print(_, _, _)
diff_print(patch, i, lines) ==
    IF i > Len(patch) THEN [text |-> lines, panic |-> NoPanic]
    ELSE IF patch_line(patch[i]).panic # NoPanic
    THEN [text |-> lines, panic |-> patch_line(patch[i]).panic]
    ELSE diff_print(patch, i + 1, lines \o patch_line(patch[i]).text)

\* The "diff hidden:" section
hidden(excluded) ==
    IF excluded = {} THEN <<>>
    ELSE <<"", "diff hidden:">> \o Lines(Cardinality(excluded), "path")

diff(commit) ==
    LET head == <<"id">> \o message_lines(commit.message)
        printed == diff_print(commit.patch, 1, head)
    IN  IF commit.parents <= 1
        THEN IF printed.panic # NoPanic THEN printed
             ELSE [text |-> printed.text \o hidden(commit.excluded),
                   panic |-> NoPanic]
        ELSE [text |-> head, panic |-> NoPanic]

PatchLines ==
    [origin : {"F", "+"}, utf8 : BOOLEAN, newlines : {0, 1}]
Patches == UNION {[1..n -> PatchLines] : n \in 0..MaxPatchLines}
CommitContents ==
    [message : [utf8 : BOOLEAN, newlines : {0, 1}],
     parents : {0, 1, 2},
     patch : Patches,
     excluded : SUBSET {"other"}]

DetailInit ==
    /\ selected \in CommitContents
    /\ text = <<>>
    /\ overflow_checks \in BOOLEAN
    /\ repository = <<>>
    /\ model = unset
    /\ event = NoEvent
    /\ pc = "diff"
    /\ panic = NoPanic
    /\ ChannelIdle
    /\ StartupDone

\* app_model.diff() on the selected commit
Diff ==
    /\ pc = "diff"
    /\ panic = NoPanic
    /\ text' = diff(selected).text
    /\ panic' = diff(selected).panic
    /\ pc' = IF diff(selected).panic = NoPanic THEN "shown" ELSE "diff"
    /\ UNCHANGED <<repository, overflow_checks, model, event, selected>>
    /\ UNCHANGED <<channel_vars, startup_vars>>

DetailNext == Diff

DetailSpec == DetailInit /\ [][DetailNext]_vars

\* ---------------------------------------------------------------- claims
\* update_model has just applied e: main is back at the head of its loop or
\* has left it, or the handler of e is where the process panicked.
Applied(e) ==
    /\ event = e
    /\ \/ pc \in {"draw", "done"} /\ panic = NoPanic
       \/ pc = "update" /\ panic # NoPanic

\* C1: while the program runs, the selection lies inside the revision
\* window: revision_window_index < revision_window_length, or both are 0.
C1_SelectionInsideWindow ==
    panic = NoPanic =>
        \/ model.revision_window_index < model.revision_window_length
        \/ /\ model.revision_window_length = 0
           /\ model.revision_window_index = 0

\* C2: the revision window never extends past the end of the history:
\* revision_index + revision_window_length <= number of commits.
C2_WindowWithinStream ==
    model.revision_index + model.revision_window_length <= walker_count

\* increment_revision has scrolled a window shorter than the history to its end
C2_Witness ==
    /\ Applied(Input("Down"))
    /\ panic = NoPanic
    /\ model.app_state = Commits
    /\ model.revision_index > 0
    /\ model.revision_index + model.revision_window_length = walker_count

\* C3: while the program runs the selected position revision_index +
\* revision_window_index is a commit of the history, and commit() never
\* finds it missing.
C3_SelectionValid ==
    /\ panic = NoPanic => commit_found(model)
    /\ panic # MissingCommit

\* C4: resize, first, last, increment and decrement on either window always
\* complete: no assertion fails, no subtraction overflows, no commit is missing.
C4_NavigationTotal == panic = NoPanic

\* C5 as stated: diff_index + diff_window_length <= diff_length (or
\* diff_index = 0 when diff_length = 0) in every state.
C5_DetailWindowFits ==
    \/ model.diff_index + model.diff_window_length <= model.diff_length
    \/ model.diff_length = 0 /\ model.diff_index = 0

\* C5 as amended: diff_index <= diff_length.saturating_sub(diff_window_length)
\* in every state: the detail window fits whenever it is no longer than the
\* diff, and starts at line 0 when it is longer.
C5_DetailIndexClamped ==
    model.diff_index <=
        saturating_sub(model.diff_length, model.diff_window_length)

\* the draw has resized the detail window of a scrolled diff so that it ends
\* exactly at the last line
C5_Witness ==
    /\ pc = "update"
    /\ panic = NoPanic
    /\ model.app_state = Details
    /\ model.diff_index > 0
    /\ model.diff_window_length > 1
    /\ model.diff_index + model.diff_window_length = model.diff_length

\* C6: every draw that resizes the revision window to `length` rows completes
\* and sets revision_window_length = min(length, commits from revision_index,
\* counted up to length), leaving revision_index as it was.
C6_ResizeSetsLength ==
    [][\A h \in Heights, d \in Heights :
           Draw(h, d) =>
               /\ panic' = NoPanic
               /\ model'.revision_window_length =
                      Min(h, Min(h, walker_count - model.revision_index))
               /\ model'.revision_index = model.revision_index]_vars

\* C7: 'g' in the commit list always leaves revision_index = 0 and
\* revision_window_index = 0, and go_to_first_revision, applied to any model
\* and then again to its own result, gives that same result.
C7_FirstIsFixedPoint ==
    LET r == go_to_first_revision(model)
    IN  /\ (Applied(Input("g")) /\ model.app_state = Commits) =>
               /\ panic = NoPanic
               /\ model.revision_index = 0
               /\ model.revision_window_index = 0
        /\ r.panic = NoPanic
        /\ r.model.revision_index = 0
        /\ r.model.revision_window_index = 0
        /\ go_to_first_revision(r.model) = r

\* 'g' has been applied in the commit list of a history longer than the window
C7_Witness ==
    /\ Applied(Input("g"))
    /\ model.app_state = Commits
    /\ model.revision_window_length < walker_count
    /\ model.revision_index = 0
    /\ model.revision_window_index = 0

\* C8: 'G' in the commit list completes with revision_index =
\* T.saturating_sub(revision_window_length) and revision_window_index =
\* revision_window_length.saturating_sub(1), T the number of commits, so that
\* the selected position is T - 1.
C8_LastSelectsLastRecord ==
    (Applied(Input("G")) /\ model.app_state = Commits) =>
        /\ panic = NoPanic
        /\ model.revision_index =
               saturating_sub(walker_count, model.revision_window_length)
        /\ model.revision_window_index =
               saturating_sub(model.revision_window_length, 1)
        /\ model.revision_index + model.revision_window_index = walker_count - 1

\* increment_revision applied k times, stopping at a panic
RECURSIVE increment_revisions(_, _)
increment_revisions(r, k) ==
    IF k = 0 \/ r.panic # NoPanic THEN r
    ELSE increment_revisions(increment_revision(r.model), k - 1)

\* decrement_revision applied k times, stopping at a panic
RECURSIVE decrement_revisions(_, _)
decrement_revisions(r, k) ==
    IF k = 0 \/ r.panic # NoPanic THEN r
    ELSE decrement_revisions(decrement_revision(r.model), k - 1)

\* The (revision_index, revision_window_index) a call completed with
Reached(r) ==
    <<r.panic, r.model.revision_index, r.model.revision_window_index>>

\* T - 1 increments from first() reach the state of last(), and T - 1
\* decrements from last() reach the state of first(), on the model m
IncrementsMeetLast(m) ==
    LET f == go_to_first_revision(m)
        l == go_to_last_revision(m)
    IN  /\ f.panic = NoPanic
        /\ l.panic = NoPanic
        /\ Reached(increment_revisions(f, walker_count - 1)) = Reached(l)
        /\ Reached(decrement_revisions(l, walker_count - 1)) = Reached(f)

\* C9: for every number of commits and every window length the program
\* reaches, T - 1 increments from first() reach the state of last() and
\* T - 1 decrements from last() reach the state of first().
C9_IncrementsMeetLast == panic = NoPanic => IncrementsMeetLast(model)

NavKeys == {"g", "G", "Down", "Up"}
PageKeys == {"PageDown", "PageUp"}
RevisionWindow(m) ==
    <<m.revision_index, m.revision_window_index, m.revision_window_length>>

\* C10: a navigation or page key leaves the revision window alone in Details,
\* scrolls no diff line in Commits (diff_index stays or is reset to 0), a page
\* key changes nothing in Commits, and no key changes anything in Finished.
C10_RoutedByMode ==
    panic = NoPanic =>
        \A k \in NavKeys \cup PageKeys :
            LET r == update_model(model, Input(k))
            IN  /\ model.app_state = Details =>
                       /\ r.panic = NoPanic
                       /\ RevisionWindow(r.model) = RevisionWindow(model)
                       /\ r.model.diff_length = model.diff_length
                       /\ r.model.diff_window_length = model.diff_window_length
                /\ (model.app_state = Commits /\ k \in NavKeys) =>
                       r.model.diff_index \in {0, model.diff_index}
                /\ (model.app_state = Commits /\ k \in PageKeys) =>
                       r = Ok(model)
                /\ model.app_state = Finished => r = Ok(model)

\* a page key has scrolled the diff in Details
C10_Witness ==
    /\ Applied(Input("PageDown"))
    /\ model.app_state = Details
    /\ model.diff_index > 0
    /\ model.revision_window_index > 0

\* C11: 'q' and Event::Failure end the session from every mode in which an
\* event is applied: update_model sets app_state to Finished without a panic,
\* whatever the windows hold, and main leaves its loop.
C11_QuitAndFailureTerminate ==
    /\ (panic = NoPanic /\ pc # "done") =>
           \A e \in {Input("q"), Failure} :
               /\ model.app_state \in {Commits, Details}
               /\ update_model(model, e).panic = NoPanic
               /\ update_model(model, e).model.app_state = Finished
    /\ (event \in {Input("q"), Failure} /\ pc # "update") =>
           /\ panic = NoPanic
           /\ model.app_state = Finished
           /\ pc = "done"

\* a Failure has ended a session whose diff had been scrolled
C11_Witness ==
    /\ Applied(Failure)
    /\ model.app_state = Finished
    /\ model.diff_index > 0

\* C12: Tab alternates between Commits and Details: one Tab flips the mode,
\* two Tabs restore it, and Tab never yields Finished.
C12_ToggleAlternates ==
    /\ (panic = NoPanic /\ pc # "done") =>
           LET r1 == update_model(model, Input("Tab"))
               r2 == update_model(r1.model, Input("Tab"))
           IN  /\ r1.panic = NoPanic /\ r2.panic = NoPanic
               /\ model.app_state = Commits => r1.model.app_state = Details
               /\ model.app_state = Details => r1.model.app_state = Commits
               /\ r2.model.app_state = model.app_state
    /\ Applied(Input("Tab")) =>
           /\ model.app_state \in {Commits, Details}
           /\ pc = "draw"

\* the second Tab has brought a scrolled session back to Commits
C12_Witness ==
    /\ Applied(Input("Tab"))
    /\ model.app_state = Commits
    /\ model.diff_index > 0

\* C16: for every index, window length and total length the model hands to
\* the scroll bar, and for every height of the bar's area, the bar drawn lies
\* inside the area: window_offset + scaled_window_length <= area height.
C16_BarInsideArea ==
    panic = NoPanic =>
        LET scroll == diff_line_scroll(model)
        IN  \A area_height \in Heights :
                window_offset(area_height, scroll[1], scroll[3])
                  + scaled_window_length(area_height, scroll[2], scroll[3])
                    <= area_height

\* a scrolled diff whose bar starts below the top of its area and ends on the
\* area's last row
C16_Witness ==
    LET scroll == diff_line_scroll(model)
    IN  /\ pc = "update"
        /\ panic = NoPanic
        /\ scroll[1] > 0
        /\ window_offset(scroll[2], scroll[1], scroll[3]) > 0
        /\ window_offset(scroll[2], scroll[1], scroll[3])
             + scaled_window_length(scroll[2], scroll[2], scroll[3])
               = scroll[2]

\* C17: main leaves its loop only with the model Finished, and the process
\* never ends inside update_model, in the middle of applying an event.
C17_EndsOnlyFinished ==
    /\ pc = "done" => model.app_state = Finished
    /\ ~(pc = "update" /\ panic # NoPanic)

\* C18: (as claimed) some key pressed in Commits enters a fourth mode, and
\* pressed again returns to Commits.
C18_LogToggle ==
    (panic = NoPanic /\ pc = "update" /\ model.app_state = Commits) =>
        \E k \in Keys :
            LET r == update_model(model, Input(k))
            IN  /\ r.model.app_state \notin AppState
                /\ update_model(r.model, Input(k)).model.app_state = Commits

\* C18: (amended) the modes are Commits, Details and Finished and no key
\* enters another: Tab and 'q' are the only keys that change the mode, and a
\* Resize leaves it alone.
C18_ThreeModes ==
    /\ model.app_state \in AppState
    /\ (panic = NoPanic /\ pc # "done") =>
           /\ \A k \in Keys :
                  LET r == update_model(model, Input(k))
                  IN  /\ r.model.app_state \in AppState
                      /\ k \notin {"q", "Tab"} =>
                             r.model.app_state = model.app_state
           /\ update_model(model, Resize).model.app_state = model.app_state

\* a key with no case of its own has been applied in Commits
C18_Witness ==
    /\ Applied(Input("Other"))
    /\ panic = NoPanic
    /\ model.app_state = Commits
    /\ model.revision_window_index > 0

\* C13: update_model receives the events in the order the thread sent them:
\* every event still in the channel was sent after the event received last,
\* and the channel holds them oldest first with none missing.
C13_ReceivedInSendOrder ==
    /\ received <= sent
    /\ Len(channel) = sent - received
    /\ \A i \in 1..Len(channel) : channel[i].number = received + i

\* a key press has been applied while the Tick sent after it waits in the
\* channel behind it
C13_Witness ==
    /\ Applied(event)
    /\ event.kind = "Input"
    /\ received = 1
    /\ channel # <<>>
    /\ Head(channel).event = Tick
    /\ Head(channel).number = 2

\* The history source gives every commit whole
Healthy == \A i \in 1..Len(history) : history[i] = Found
\* Path arguments are given and no commit of the history touches any of them
NoneTouched ==
    /\ paths # <<>>
    /\ \A i \in 1..Len(paths) : paths[i] \cap (1..Len(history)) = {}

C15_FailureSurfaces ==
    (\E i \in 1..Len(history) : history[i] # Found) =>
        /\ pc \notin {"constructed", "draw"}
        /\ error # NoCommitsFound

Filters == {TextFilter} \cup {PathFilter(oids) : oids \in Touched}
FilterSets == UNION {[1..n -> Filters] : n \in 0..MaxPaths}

\* C20: over a history that can be read, for every list of filters of either
\* variant, the walk does not panic and yields, in the order of the history,
\* every commit if the list is empty and otherwise the commits that some
\* filter of the list matches (for Path filters: the commits in its id set).
C20_FilteredStream ==
    Healthy =>
        \A fs \in FilterSets :
            LET w == walker(history, fs)
            IN  /\ w.panic = NoPanic
                /\ \A j \in 1..Len(w.stream), k \in 1..Len(w.stream) :
                       j < k => w.stream[j] < w.stream[k]
                /\ (\A i \in 1..Len(fs) : fs[i].kind = "Path") =>
                       Range(w.stream) =
                           {oid \in 1..Len(history) :
                               \/ fs = <<>>
                               \/ \E i \in 1..Len(fs) : oid \in fs[i].oids}

\* C19: diff() returns a text for every commit, whatever bytes its message
\* and its patch hold: it does not panic, a message that is not UTF-8 shows
\* as the placeholder line, and the text has at least the id line and one
\* line of message.
C19_MalformedDetailRecovered ==
    /\ panic = NoPanic
    /\ pc = "shown" =>
           /\ Len(text) >= MinDiffLines
           /\ ~selected.message.utf8 => text[2] = "INVALID MESSAGE"

\* C21: increment_revision moves the selection down inside the window, else
\* scrolls the window by one while commits remain beyond it, else changes
\* neither; decrement_revision moves the selection up, else scrolls the
\* window up by one, saturating at 0; neither panics nor changes
\* revision_window_length.
C21_IncrementDecrement ==
    (panic = NoPanic /\ pc # "done") =>
        LET i == increment_revision(model)
            d == decrement_revision(model)
            index == model.revision_index
            selection == model.revision_window_index
            length == model.revision_window_length
        IN  /\ i.panic = NoPanic
            /\ d.panic = NoPanic
            /\ <<i.model.revision_index, i.model.revision_window_index>> =
                   IF selection + 1 < length THEN <<index, selection + 1>>
                   ELSE IF index + length < walker_count
                   THEN <<index + 1, selection>>
                   ELSE <<index, selection>>
            /\ <<d.model.revision_index, d.model.revision_window_index>> =
                   IF selection > 0 THEN <<index, selection - 1>>
                   ELSE <<saturating_sub(index, 1), selection>>
            /\ i.model.revision_window_length = length
            /\ d.model.revision_window_length = length

\* Window lengths up to one more than the longest diff
WindowLengths == 0..(MaxDiffLines + 1)
\* diff_length.saturating_sub(diff_window_length): the last diff_index
LastDiffIndex(m) == saturating_sub(m.diff_length, m.diff_window_length)

\* C22: resize_diff_window(n) sets diff_window_length to n, moves diff_index
\* only when diff_index + n > diff_length, then to
\* diff_length.saturating_sub(n), and changes nothing else.
C22_ResizeDiffWindow ==
    (panic = NoPanic /\ pc # "done") =>
        \A n \in WindowLengths :
            resize_diff_window(model, n) =
                [model EXCEPT
                    !.diff_window_length = n,
                    !.diff_index =
                        IF model.diff_index + n > model.diff_length
                        THEN saturating_sub(model.diff_length, n)
                        ELSE model.diff_index]

\* a frame drawn after a Resize shows a scrolled diff to its last line in a
\* window of several rows
C22_Witness ==
    /\ event = Resize
    /\ pc = "update"
    /\ panic = NoPanic
    /\ model.diff_index > 0
    /\ model.diff_window_length > 1
    /\ model.diff_index + model.diff_window_length = model.diff_length

\* C23: go_to_first_diff_line sets diff_index to 0, go_to_last_diff_line to
\* diff_length.saturating_sub(diff_window_length); increment_diff_line and
\* decrement_diff_line move it by one unless that leaves that range, and
\* then leave it; diff_index is always within the range and the four change
\* nothing else.
C23_DiffLineNavigation ==
    (panic = NoPanic /\ pc # "done") =>
        /\ model.diff_index \in 0..LastDiffIndex(model)
        /\ go_to_first_diff_line(model) = [model EXCEPT !.diff_index = 0]
        /\ go_to_last_diff_line(model) =
               [model EXCEPT !.diff_index = LastDiffIndex(model)]
        /\ increment_diff_line(model) =
               [model EXCEPT !.diff_index =
                    IF @ + 1 <= LastDiffIndex(model) THEN @ + 1 ELSE @]
        /\ decrement_diff_line(model) =
               [model EXCEPT !.diff_index = IF @ >= 1 THEN @ - 1 ELSE @]
        /\ increment_diff_line(model).diff_index \in 0..LastDiffIndex(model)

\* 'G' in Details has scrolled a diff longer than its window to its end
C23_Witness ==
    /\ Applied(Input("G"))
    /\ panic = NoPanic
    /\ model.app_state = Details
    /\ model.diff_window_length > 0
    /\ model.diff_index = model.diff_length - model.diff_window_length
    /\ model.diff_index > 0

\* C24: in Details PageDown leaves diff_index at
\* min(diff_index + diff_window_length, last index) and PageUp at
\* diff_index.saturating_sub(diff_window_length); nothing else changes.
C24_PageScroll ==
    (panic = NoPanic /\ model.app_state = Details) =>
        /\ update_model(model, Input("PageDown")) =
               Ok([model EXCEPT !.diff_index =
                       Min(@ + model.diff_window_length, LastDiffIndex(model))])
        /\ update_model(model, Input("PageUp")) =
               Ok([model EXCEPT !.diff_index =
                       saturating_sub(@, model.diff_window_length)])

\* PageDown has scrolled a diff of two windows by one whole window
C24_Witness ==
    /\ Applied(Input("PageDown"))
    /\ model.app_state = Details
    /\ model.diff_window_length = 2
    /\ model.diff_index = 2

\* C25: diff_length is the length of the diff of the selected commit in every
\* state of a running session, and each of g, G, Down, Up applied in Commits
\* leaves diff_index = 0 and diff_length = the length of the diff of the
\* commit it selects.
C25_DetailFollowsSelection ==
    panic = NoPanic =>
        /\ commit_found(model)
        /\ model.diff_length = diff_len(model)
        /\ (pc # "done" /\ model.app_state = Commits) =>
               \A k \in NavKeys :
                   LET r == update_model(model, Input(k))
                   IN  r.panic = NoPanic =>
                           /\ r.model.diff_index = 0
                           /\ commit_found(r.model)
                           /\ r.model.diff_length = diff_len(r.model)

\* Down has selected a commit whose diff differs in length from the first's
C25_Witness ==
    /\ Applied(Input("Down"))
    /\ panic = NoPanic
    /\ model.app_state = Commits
    /\ model.revision_index + model.revision_window_index > 0
    /\ model.diff_index = 0
    /\ model.diff_length # repository[1]

\* C26: the producer thread never reads or writes the engine state: a step of
\* it only appends one event to the channel. The engine state changes only
\* inside the consumer's step that applies a received event, or in the resize
\* that precedes drawing a frame.
C26_ProducerOnlyAppends ==
    [][/\ sent' # sent =>
            /\ UNCHANGED <<engine_vars, received>>
            /\ Len(channel') = Len(channel) + 1
            /\ SubSeq(channel', 1, Len(channel)) = channel
            /\ channel'[Len(channel')].number = sent'
       /\ model' # model =>
            /\ sent' = sent
            /\ \/ pc = "draw" /\ UNCHANGED <<channel, received>>
               \/ /\ pc = "update"
                  /\ received' = received + 1
                  /\ event' # Tick
                  /\ channel' = Tail(channel)]_vars

\* Two events wait in the channel while the engine still holds the state it
\* was constructed with.
C26_Witness ==
    /\ Len(channel) = 2
    /\ sent = 2
    /\ received = 0
    /\ pc = "draw"
    /\ event = NoEvent
    /\ model = new(repository)

\* C27: Finished is absorbing. In Finished no key, resize or failure event
\* changes the mode, the revision window or the diff window, and the main loop
\* has ended: it draws no further frame and applies no further event.
C27_FinishedAbsorbing ==
    model.app_state = Finished =>
        /\ pc = "done"
        /\ panic = NoPanic
        /\ \A e \in {Input(k) : k \in Keys} \cup {Resize, Failure} :
               update_model(model, e) = Ok(model)
        /\ ~ENABLED Next

\* q has ended a session in which the selection had left the first commit
C27_Witness ==
    /\ Applied(Input("q"))
    /\ model.app_state = Finished
    /\ pc = "done"
    /\ model.revision_window_index + model.revision_index > 0

\* C28: a Tick is consumed without changing the engine state and without
\* ending the update step. An update step that returns has applied exactly one
\* event, which is not a Tick: the Ticks received before it left the step
\* running, and an event that is not a Tick ends the step as soon as it is
\* applied.
C28_TickKeepsWaiting ==
    [][/\ (received' # received /\ event' = Tick) =>
            /\ pc = "update"
            /\ UNCHANGED <<model, pc, panic>>
       /\ (received' # received /\ event' # Tick) =>
            /\ pc = "update"
            /\ received' = received + 1
            /\ model' = update_model(model, event').model
            /\ panic' = NoPanic => pc' # "update"
       /\ (pc = "update" /\ pc' # "update") =>
            /\ received' = received + 1
            /\ event' # Tick]_vars

\* The update step has consumed a Tick and still waits, with one more event
\* in the channel.
C28_Witness ==
    /\ event = Tick
    /\ pc = "update"
    /\ panic = NoPanic
    /\ received = 1
    /\ Len(channel) = 1
    /\ channel[1].event # Tick

\* C29: Tab, q and Failure change only the mode: the revision window and the
\* diff window are the same after as before. So the scroll position of the
\* diff survives Commits -> Details -> Commits and Details -> Commits ->
\* Details.
C29_ModeEventsKeepWindows ==
    (panic = NoPanic /\ pc # "done") =>
        /\ \A e \in {Input("Tab"), Input("q"), Failure} :
               LET r == update_model(model, e)
               IN  /\ r.panic = NoPanic
                   /\ r.model = [model EXCEPT !.app_state = r.model.app_state]
                   /\ r.model.app_state # model.app_state
        /\ LET there == update_model(model, Input("Tab")).model
               back == update_model(there, Input("Tab")).model
           IN  back = model

\* Tab has brought back the Details mode with the diff still scrolled
C29_Witness ==
    /\ Applied(Input("Tab"))
    /\ model.app_state = Details
    /\ model.diff_index > 0
    /\ model.revision_window_index > 0

\* C30: if q or a Failure is in the channel while the program runs in Commits
\* or Details, then whatever events wait before it, and given that main's loop
\* keeps taking steps, the program eventually is Finished and the loop has
\* ended.
C30_QuitEventuallyFinishes ==
    (/\ model.app_state \in {Commits, Details}
     /\ panic = NoPanic
     /\ \E i \in DOMAIN channel : channel[i].event \in {Input("q"), Failure})
        ~> (model.app_state = Finished /\ pc = "done")

====
